---- MODULE Spec2Model ----
(***************************************************************************)
(* Book Review API: the auth routes (signup, login, refresh-token), the    *)
(* bearer-token gate and the protected book and review routes, over the    *)
(* three tables users, books and reviews.                                  *)
(*                                                                         *)
(* Time is the JWT clock: whole seconds, as jsonwebtoken reads it          *)
(* (NumericDate). Every await on the database is one step of a request, so *)
(* requests interleave between their queries. The public GET routes read   *)
(* the tables and write nothing; they are left out, as is created_at,      *)
(* which only they read.                                                   *)
(***************************************************************************)
EXTENDS Integers, FiniteSets, Sequences, TLC

VARIABLES
  users,        \* table users: {id, email, password}
  books,        \* table books: {id, title, author, genre, description}
  reviews,      \* table reviews: {id, book_id, user_id, rating, comment}
  nextReviewId, \* the sequence behind reviews.id (SERIAL)
  now,          \* the clock, in seconds
  issued,       \* every token the server has signed: what clients can hold
  procs,        \* requests in flight: position and locals of each
  res,          \* the response the last step sent, NoRes when it sent none
  registered    \* history: the (email, password) pairs whose signup got 201

vars == <<users, books, reviews, nextReviewId, now, issued, procs, res, registered>>

db == <<users, books, reviews, nextReviewId>>

(***************************************************************************)
(* Bounds and input domains                                                *)
(***************************************************************************)
MaxProcs == 2
MaxTokens == 4
MaxBooks == 1
MaxReviewId == 2
MaxSeqReviewId == 1

Procs == 1..MaxProcs
Emails == {"a@x.com", "b@x.com"}
Passwords == {"p1", "wrong"}
Salts == {"s1", "s2"}
Titles == {"undefined", "Dune"}
Comments == {"undefined", "good"}
Ratings == {<<>>, <<0>>, <<1>>, <<5>>, <<6>>}

(* JS undefined and SQL NULL, for strings; an absent number is <<>> and a  *)
(* present one <<n>>                                                       *)
Undefined == "undefined"
Null == "null"
None == <<>>
Some(v) == <<v>>

(***************************************************************************)
(* Program constants                                                       *)
(***************************************************************************)
AccessTTL == 60
RefreshTTL == 7 * 24 * 60 * 60
JWT_SECRET == "JWT_SECRET"

(* The instants the clock visits: each side of every expiry boundary. *)
Instants == {0, AccessTTL - 1, AccessTTL, RefreshTTL - 1, RefreshTTL,
             RefreshTTL + AccessTTL - 1, RefreshTTL + AccessTTL}
CoarseInstants == {0, RefreshTTL - 1, RefreshTTL}

(***************************************************************************)
(* bcryptjs: hash embeds the salt; compare re-hashes with the stored salt  *)
(***************************************************************************)
Digest(salt, password) == <<salt, password>>

BcryptHash(password, salt) == [salt |-> salt, digest |-> Digest(salt, password)]

BcryptCompare(password, hash) == hash.digest = Digest(hash.salt, password)

(***************************************************************************)
(* jsonwebtoken: HS256 over the payload {email, iat, exp}. The field by is *)
(* history (which route issued the token); nothing the server does reads   *)
(* it.                                                                     *)
(***************************************************************************)
Mac(key, email, iat, exp) == <<key, email, iat, exp>>

JwtSign(email, ttl, t, by) ==
  [email |-> email, iat |-> t, exp |-> t + ttl,
   sig |-> Mac(JWT_SECRET, email, t, t + ttl), by |-> by]

JwtVerify(token, t) ==
  /\ token.sig = Mac(JWT_SECRET, token.email, token.iat, token.exp)
  /\ t < token.exp

(* The decoded payload; of it only the identity claim, email, is ever read. *)
JwtDecode(token) == [email |-> token.email]

NoToken == [email |-> "", iat |-> 0, exp |-> 0, sig |-> <<>>, by |-> ""]

(* What a client can send: nothing, a token it holds, a issued token with an *)
(* altered payload, or a token signed with another key.                    *)
Tampered(t) ==
  {[t EXCEPT !.exp = t.exp + RefreshTTL, !.by = "client"]}
    \cup {[t EXCEPT !.email = e, !.by = "client"] : e \in Emails \ {t.email}}

Forged(t) == [email |-> "a@x.com", iat |-> t, exp |-> t + AccessTTL,
              sig |-> Mac("other", "a@x.com", t, t + AccessTTL), by |-> "client"]

Presentable == {NoToken, Forged(now)} \cup issued \cup UNION {Tampered(t) : t \in issued}

(* The tokens signed so far never exceed MaxTokens. *)
Room(new) == Cardinality(issued \cup new) <= MaxTokens

(***************************************************************************)
(* Requests in flight and responses                                        *)
(***************************************************************************)
NoUser == [email |-> ""]

Idle == [pc |-> "idle", email |-> "", password |-> "", user |-> NoUser, id |-> 0,
         rating |-> None, comment |-> "", row |-> <<>>]

NoRes == [op |-> "", status |-> 0, error |-> ""]

Respond(op, status, error) == [op |-> op, status |-> status, error |-> error]

InternalError(op) == Respond(op, 500, "Internal server error")

(***************************************************************************)
(* Tables                                                                  *)
(***************************************************************************)
UsersByEmail(email) == {u \in users : u.email = email}

Init ==
  /\ users = {}
  /\ books = {}
  /\ reviews = {}
  /\ nextReviewId = 1
  /\ now = 0
  /\ issued = {}
  /\ procs = [p \in Procs |-> Idle]
  /\ res = NoRes
  /\ registered = {}

(***************************************************************************)
(* POST /auth/signup                                                       *)
(***************************************************************************)
(* SELECT * FROM users WHERE email = $1, and the 400 when a row exists *)
SignupCheck(p, email, password) ==
  /\ procs[p].pc = "idle"
  /\ IF UsersByEmail(email) # {}
     THEN /\ res' = Respond("signup", 400, "Email already exists")
          /\ procs' = procs
     ELSE /\ procs' = [procs EXCEPT ![p] = [Idle EXCEPT !.pc = "signup_insert",
                                             !.email = email, !.password = password]]
          /\ res' = NoRes
  /\ UNCHANGED <<users, books, reviews, nextReviewId, now, issued, registered>>

(* Mutants of InsertUser: no UNIQUE constraint on email; an INSERT that    *)
(* reports success and stores nothing.                                     *)
InsertUserNoUnique(email, hash) ==
  [ok |-> TRUE,
   rows |-> users \cup {[id |-> Cardinality(users) + 1, email |-> email, password |-> hash]}]

InsertUserNoop(email, hash) == [ok |-> TRUE, rows |-> users]

(* INSERT INTO users (email, password): id SERIAL, email UNIQUE *)
InsertUser(email, hash) ==
  IF UsersByEmail(email) # {}
  THEN [ok |-> FALSE, rows |-> users]
  ELSE [ok |-> TRUE,
        rows |-> users \cup {[id |-> Cardinality(users) + 1, email |-> email,
                              password |-> hash]}]

(* bcrypt.hash, the INSERT, and the 201, or the 500 when the INSERT throws *)
SignupInsert(p, salt) ==
  /\ procs[p].pc = "signup_insert"
  /\ LET r == InsertUser(procs[p].email, BcryptHash(procs[p].password, salt))
     IN /\ users' = r.rows
        /\ res' = IF r.ok THEN Respond("signup", 201, "") ELSE InternalError("signup")
        /\ registered' = IF r.ok
                         THEN registered \cup {<<procs[p].email, procs[p].password>>}
                         ELSE registered
  /\ procs' = [procs EXCEPT ![p] = Idle]
  /\ UNCHANGED <<books, reviews, nextReviewId, now, issued>>

(***************************************************************************)
(* POST /auth/login                                                        *)
(***************************************************************************)
(* Mutants of LoginResponse: the password is not compared; the access     *)
(* token is signed with the refresh lifetime; the cookie with the access   *)
(* lifetime.                                                               *)
LoginResponseNoCompare(email, password) ==
  IF UsersByEmail(email) = {}
  THEN [status |-> 400, error |-> "Invalid email", accessToken |-> NoToken, cookie |-> NoToken]
  ELSE [status |-> 200, error |-> "",
        accessToken |-> JwtSign(email, AccessTTL, now, "login"),
        cookie |-> JwtSign(email, RefreshTTL, now, "login-cookie")]

LoginResponseLongAccess(email, password) ==
  IF UsersByEmail(email) = {}
  THEN [status |-> 400, error |-> "Invalid email", accessToken |-> NoToken, cookie |-> NoToken]
  ELSE LET user == CHOOSE u \in UsersByEmail(email) : TRUE
       IN IF ~BcryptCompare(password, user.password)
          THEN [status |-> 400, error |-> "Invalid password",
                accessToken |-> NoToken, cookie |-> NoToken]
          ELSE [status |-> 200, error |-> "",
                accessToken |-> JwtSign(email, RefreshTTL, now, "login"),
                cookie |-> JwtSign(email, RefreshTTL, now, "login-cookie")]

LoginResponseShortCookie(email, password) ==
  IF UsersByEmail(email) = {}
  THEN [status |-> 400, error |-> "Invalid email", accessToken |-> NoToken, cookie |-> NoToken]
  ELSE LET user == CHOOSE u \in UsersByEmail(email) : TRUE
       IN IF ~BcryptCompare(password, user.password)
          THEN [status |-> 400, error |-> "Invalid password",
                accessToken |-> NoToken, cookie |-> NoToken]
          ELSE [status |-> 200, error |-> "",
                accessToken |-> JwtSign(email, AccessTTL, now, "login"),
                cookie |-> JwtSign(email, AccessTTL, now, "login-cookie")]

LoginResponse(email, password) ==
  IF UsersByEmail(email) = {}
  THEN [status |-> 400, error |-> "Invalid email", accessToken |-> NoToken, cookie |-> NoToken]
  ELSE LET user == CHOOSE u \in UsersByEmail(email) : TRUE
       IN IF ~BcryptCompare(password, user.password)
          THEN [status |-> 400, error |-> "Invalid password",
                accessToken |-> NoToken, cookie |-> NoToken]
          ELSE [status |-> 200, error |-> "",
                accessToken |-> JwtSign(email, AccessTTL, now, "login"),
                cookie |-> JwtSign(email, RefreshTTL, now, "login-cookie")]

Login(email, password) ==
  /\ LET r == LoginResponse(email, password)
     IN /\ res' = Respond("login", r.status, r.error)
        /\ IF r.status = 200
           THEN /\ Room({r.accessToken, r.cookie})
                /\ issued' = issued \cup {r.accessToken, r.cookie}
           ELSE issued' = issued
  /\ UNCHANGED <<users, books, reviews, nextReviewId, now, procs, registered>>

(***************************************************************************)
(* POST /auth/refresh-token                                                *)
(***************************************************************************)
(* Mutant of RefreshResponse: the cookie is decoded without verification. *)
RefreshResponseNoVerify(token) ==
  IF token = NoToken
  THEN [status |-> 401, error |-> "No refresh token", accessToken |-> NoToken]
  ELSE [status |-> 200, error |-> "",
        accessToken |-> JwtSign(JwtDecode(token).email, AccessTTL, now, "refresh")]

RefreshResponse(token) ==
  IF token = NoToken
  THEN [status |-> 401, error |-> "No refresh token", accessToken |-> NoToken]
  ELSE IF ~JwtVerify(token, now)
       THEN [status |-> 403, error |-> "Invalid refresh token", accessToken |-> NoToken]
       ELSE [status |-> 200, error |-> "",
             accessToken |-> JwtSign(JwtDecode(token).email, AccessTTL, now, "refresh")]

RefreshToken(token) ==
  /\ LET r == RefreshResponse(token)
     IN /\ res' = Respond("refresh", r.status, r.error)
        /\ IF r.status = 200
           THEN /\ Room({r.accessToken})
                /\ issued' = issued \cup {r.accessToken}
           ELSE issued' = issued
  /\ UNCHANGED <<users, books, reviews, nextReviewId, now, procs, registered>>

(***************************************************************************)
(* The clock                                                               *)
(***************************************************************************)
Tick(t) ==
  /\ t > now
  /\ now' = t
  /\ res' = NoRes
  /\ UNCHANGED <<users, books, reviews, nextReviewId, issued, procs, registered>>

(***************************************************************************)
(* middleware/authenticateToken: the bearer-token gate of the protected    *)
(* routes. Stateless: it verifies signature and expiry and attaches the    *)
(* token's payload as req.user.                                            *)
(***************************************************************************)
AuthenticateToken(token) ==
  IF token = NoToken
  THEN [next |-> FALSE, status |-> 401, error |-> "missing credential", user |-> NoUser]
  ELSE IF ~JwtVerify(token, now)
       THEN [next |-> FALSE, status |-> 403, error |-> "invalid or expired token",
             user |-> NoUser]
       ELSE [next |-> TRUE, status |-> 0, error |-> "", user |-> JwtDecode(token)]

(* req.user.id: the payload login and refresh sign is {email}; a field it  *)
(* lacks reads as undefined, which the database driver sends as NULL.      *)
ReqUserId(user) == IF "id" \in DOMAIN user THEN Some(user.id) ELSE None

(***************************************************************************)
(* POST /books                                                             *)
(***************************************************************************)
OrNull(v) == IF v = Undefined THEN Null ELSE v

(* Mutant of PostBook: the route is registered without the gate. *)
PostBookNoGate(token, title, author, genre, description) ==
  /\ IF title = Undefined \/ author = Undefined
     THEN /\ res' = Respond("post_book", 400, "Title and author are required")
          /\ books' = books
     ELSE /\ Cardinality(books) < MaxBooks
          /\ books' = books \cup {[id |-> Cardinality(books) + 1, title |-> title,
                                   author |-> author, genre |-> OrNull(genre),
                                   description |-> OrNull(description)]}
          /\ res' = Respond("post_book", 201, "")
  /\ UNCHANGED <<users, reviews, nextReviewId, now, issued, procs, registered>>

PostBook(token, title, author, genre, description) ==
  /\ LET gate == AuthenticateToken(token)
     IN IF ~gate.next
        THEN /\ res' = Respond("post_book", gate.status, gate.error)
             /\ books' = books
        ELSE IF title = Undefined \/ author = Undefined
             THEN /\ res' = Respond("post_book", 400, "Title and author are required")
                  /\ books' = books
             ELSE /\ Cardinality(books) < MaxBooks
                  /\ books' = books \cup {[id |-> Cardinality(books) + 1, title |-> title,
                                           author |-> author, genre |-> OrNull(genre),
                                           description |-> OrNull(description)]}
                  /\ res' = Respond("post_book", 201, "")
  /\ UNCHANGED <<users, reviews, nextReviewId, now, issued, procs, registered>>

(***************************************************************************)
(* POST /books/:id/reviews                                                 *)
(***************************************************************************)
RatingInvalid(rating) == rating = None \/ rating[1] = 0 \/ rating[1] < 1 \/ rating[1] > 5

(* WHERE user_id = $2: a comparison with NULL selects no row *)
SqlEq(column, param) == column # None /\ param # None /\ column = param

(* The gate, the rating check and SELECT id FROM books WHERE id = $1 *)
ReviewBookCheck(p, token, bookId, rating, comment) ==
  /\ procs[p].pc = "idle"
  /\ LET gate == AuthenticateToken(token)
     IN IF ~gate.next
        THEN /\ res' = Respond("post_review", gate.status, gate.error)
             /\ procs' = procs
        ELSE IF RatingInvalid(rating)
             THEN /\ res' = Respond("post_review", 400, "Rating must be between 1 and 5")
                  /\ procs' = procs
             ELSE IF {b \in books : b.id = bookId} = {}
                  THEN /\ res' = Respond("post_review", 404, "Book not found")
                       /\ procs' = procs
                  ELSE /\ procs' = [procs EXCEPT ![p] =
                                      [Idle EXCEPT !.pc = "review_lookup", !.user = gate.user,
                                                   !.id = bookId, !.rating = rating,
                                                   !.comment = comment]]
                       /\ res' = NoRes
  /\ UNCHANGED <<users, books, reviews, nextReviewId, now, issued, registered>>

(* SELECT * FROM reviews WHERE book_id = $1 AND user_id = $2 *)
ExistingReview(bookId, userId) ==
  {r \in reviews : r.book_id = bookId /\ SqlEq(r.user_id, userId)}

ReviewLookup(p) ==
  /\ procs[p].pc = "review_lookup"
  /\ IF ExistingReview(procs[p].id, ReqUserId(procs[p].user)) # {}
     THEN /\ res' = Respond("post_review", 400, "You have already reviewed this book")
          /\ procs' = [procs EXCEPT ![p] = Idle]
     ELSE /\ procs' = [procs EXCEPT ![p].pc = "review_insert"]
          /\ res' = NoRes
  /\ UNCHANGED <<users, books, reviews, nextReviewId, now, issued, registered>>

(* rating INTEGER CHECK (rating >= 1 AND rating <= 5): a write that breaks *)
(* it throws                                                               *)
RatingCheck(rating) == rating >= 1 /\ rating <= 5

(* INSERT INTO reviews (book_id, user_id, rating, comment); author is      *)
(* history: the identity the gate attached to the request.                 *)
ReviewInsert(p) ==
  /\ procs[p].pc = "review_insert"
  /\ nextReviewId <= MaxReviewId
  /\ IF RatingCheck(procs[p].rating[1])
     THEN /\ reviews' = reviews \cup {[id |-> nextReviewId, book_id |-> procs[p].id,
                                       user_id |-> ReqUserId(procs[p].user),
                                       rating |-> procs[p].rating[1],
                                       comment |-> OrNull(procs[p].comment),
                                       author |-> procs[p].user.email]}
          /\ res' = Respond("post_review", 201, "")
     ELSE /\ reviews' = reviews
          /\ res' = InternalError("post_review")
  /\ nextReviewId' = nextReviewId + 1
  /\ procs' = [procs EXCEPT ![p] = Idle]
  /\ UNCHANGED <<users, books, now, issued, registered>>

(***************************************************************************)
(* PUT /books/reviews/:id                                                  *)
(***************************************************************************)
ReviewsById(reviewId) == {r \in reviews : r.id = reviewId}

(* The gate, the rating check and SELECT * FROM reviews WHERE id = $1 *)
PutSelect(p, token, reviewId, rating, comment) ==
  /\ procs[p].pc = "idle"
  /\ LET gate == AuthenticateToken(token)
     IN IF ~gate.next
        THEN /\ res' = Respond("put_review", gate.status, gate.error)
             /\ procs' = procs
        ELSE IF rating # None /\ rating[1] # 0 /\ (rating[1] < 1 \/ rating[1] > 5)
             THEN /\ res' = Respond("put_review", 400, "Rating must be between 1 and 5")
                  /\ procs' = procs
             ELSE IF ReviewsById(reviewId) = {}
                  THEN /\ res' = Respond("put_review", 404,
                                         "Review not found or not yours to edit")
                       /\ procs' = procs
                  ELSE /\ procs' = [procs EXCEPT ![p] =
                                      [Idle EXCEPT !.pc = "put_update", !.user = gate.user,
                                                   !.id = reviewId, !.rating = rating,
                                                   !.comment = comment,
                                                   !.row = <<CHOOSE r \in ReviewsById(reviewId) : TRUE>>]]
                       /\ res' = NoRes
  /\ UNCHANGED <<users, books, reviews, nextReviewId, now, issued, registered>>

(* UPDATE reviews SET rating = $1, comment = $2 WHERE id = $3 *)
PutUpdate(p) ==
  /\ procs[p].pc = "put_update"
  /\ LET row == procs[p].row[1]
         updatedRating == IF procs[p].rating # None /\ procs[p].rating[1] # 0
                          THEN procs[p].rating[1] ELSE row.rating
         updatedComment == IF procs[p].comment # Undefined
                           THEN procs[p].comment ELSE row.comment
     IN IF RatingCheck(updatedRating) \/ ReviewsById(procs[p].id) = {}
        THEN /\ reviews' = {IF r.id = procs[p].id
                            THEN [r EXCEPT !.rating = updatedRating,
                                           !.comment = updatedComment]
                            ELSE r : r \in reviews}
             /\ res' = Respond("put_review", 200, "")
        ELSE /\ reviews' = reviews
             /\ res' = InternalError("put_review")
  /\ procs' = [procs EXCEPT ![p] = Idle]
  /\ UNCHANGED <<users, books, nextReviewId, now, issued, registered>>

(***************************************************************************)
(* DELETE /books/reviews/:id                                               *)
(***************************************************************************)
DeleteSelect(p, token, reviewId) ==
  /\ procs[p].pc = "idle"
  /\ LET gate == AuthenticateToken(token)
     IN IF ~gate.next
        THEN /\ res' = Respond("delete_review", gate.status, gate.error)
             /\ procs' = procs
        ELSE IF ReviewsById(reviewId) = {}
             THEN /\ res' = Respond("delete_review", 404,
                                    "Review not found or not yours to delete")
                  /\ procs' = procs
             ELSE /\ procs' = [procs EXCEPT ![p] =
                                 [Idle EXCEPT !.pc = "delete_delete", !.user = gate.user,
                                              !.id = reviewId]]
                  /\ res' = NoRes
  /\ UNCHANGED <<users, books, reviews, nextReviewId, now, issued, registered>>

(* Mutant of DeleteDelete: the DELETE names the users table. *)
DeleteDeleteUsers(p) ==
  /\ procs[p].pc = "delete_delete"
  /\ users' = {u \in users : u.id # procs[p].id}
  /\ res' = Respond("delete_review", 200, "")
  /\ procs' = [procs EXCEPT ![p] = Idle]
  /\ UNCHANGED <<books, reviews, nextReviewId, now, issued, registered>>

(* DELETE FROM reviews WHERE id = $1 *)
DeleteDelete(p) ==
  /\ procs[p].pc = "delete_delete"
  /\ reviews' = {r \in reviews : r.id # procs[p].id}
  /\ res' = Respond("delete_review", 200, "")
  /\ procs' = [procs EXCEPT ![p] = Idle]
  /\ UNCHANGED <<users, books, nextReviewId, now, issued, registered>>

(***************************************************************************)
(* Signup and login alone, signups interleaving                            *)
(***************************************************************************)
NextSignup ==
  \/ \E p \in Procs, email \in Emails, password \in Passwords : SignupCheck(p, email, password)
  \/ \E p \in Procs, salt \in Salts : SignupInsert(p, salt)
  \/ \E email \in Emails, password \in Passwords : Login(email, password)

SpecSignup == Init /\ [][NextSignup]_vars

(***************************************************************************)
(* Tokens and the clock: sequential requests, the clock on each side of    *)
(* every expiry                                                            *)
(***************************************************************************)
NextTokens ==
  \/ \E email \in Emails : SignupCheck(1, email, "p1")
  \/ SignupInsert(1, "s1")
  \/ \E email \in Emails, password \in Passwords : Login(email, password)
  \/ \E token \in Presentable : RefreshToken(token)
  \/ \E token \in Presentable, title \in Titles : PostBook(token, title, "Herbert", Undefined, Undefined)
  \/ \E t \in Instants : Tick(t)

SpecTokens == Init /\ [][NextTokens]_vars

(***************************************************************************)
(* The review routes, requests interleaving: two users signed up and       *)
(* logged in, one book added                                               *)
(***************************************************************************)
InitReviews ==
  /\ users = {[id |-> 1, email |-> "a@x.com", password |-> BcryptHash("p1", "s1")],
              [id |-> 2, email |-> "b@x.com", password |-> BcryptHash("p1", "s2")]}
  /\ books = {[id |-> 1, title |-> "Dune", author |-> "Herbert", genre |-> Null,
               description |-> Null]}
  /\ reviews = {}
  /\ nextReviewId = 1
  /\ now = 0
  /\ issued = {JwtSign(e, AccessTTL, 0, "login") : e \in Emails}
  /\ procs = [p \in Procs |-> Idle]
  /\ res = NoRes
  /\ registered = {<<"a@x.com", "p1">>, <<"b@x.com", "p1">>}

NextReviews ==
  \/ \E p \in Procs, token \in issued, bookId \in 1..(MaxBooks + 1), rating \in Ratings :
       ReviewBookCheck(p, token, bookId, rating, "good")
  \/ \E p \in Procs : ReviewLookup(p)
  \/ \E p \in Procs : ReviewInsert(p)
  \/ \E p \in Procs, token \in issued, reviewId \in 1..MaxReviewId, rating \in Ratings,
        comment \in Comments : PutSelect(p, token, reviewId, rating, comment)
  \/ \E p \in Procs : PutUpdate(p)
  \/ \E p \in Procs, token \in issued, reviewId \in 1..MaxReviewId : DeleteSelect(p, token, reviewId)
  \/ \E p \in Procs : DeleteDelete(p)

SpecReviews == InitReviews /\ [][NextReviews]_vars

(* What the requests of Spec carry as bearer token or cookie *)
Bearers == issued \cup {NoToken, Forged(now)}

(***************************************************************************)
(* Every route, one request at a time, review ids up to MaxSeqReviewId     *)
(***************************************************************************)
Next ==
  \/ \E email \in Emails : SignupCheck(1, email, "p1")
  \/ SignupInsert(1, "s1")
  \/ \E email \in Emails, password \in Passwords : Login(email, password)
  \/ \E token \in Bearers : RefreshToken(token)
  \/ \E token \in Bearers, title \in Titles : PostBook(token, title, "Herbert", Undefined, Undefined)
  \/ \E token \in Bearers, bookId \in 1..(MaxBooks + 1) :
       ReviewBookCheck(1, token, bookId, <<5>>, Undefined)
  \/ ReviewLookup(1)
  \/ nextReviewId <= MaxSeqReviewId /\ ReviewInsert(1)
  \/ \E token \in Bearers, reviewId \in 1..(MaxSeqReviewId + 1) :
       PutSelect(1, token, reviewId, <<1>>, Undefined)
  \/ PutUpdate(1)
  \/ \E token \in Bearers, reviewId \in 1..(MaxSeqReviewId + 1) :
       DeleteSelect(1, token, reviewId)
  \/ DeleteDelete(1)
  \/ \E t \in CoarseInstants : Tick(t)

Spec == Init /\ [][Next]_vars

(***************************************************************************)
(* Claims                                                                  *)
(***************************************************************************)

(* C1: a signup whose lookup finds a user record with the email answers    *)
(* 400 "Email already exists" and leaves users as it is; a signup whose    *)
(* INSERT runs while no record has the email answers 201 and adds exactly  *)
(* one record, for that email.                                             *)
C1_SignupOutcome ==
  [][\A p \in Procs :
       /\ \A email \in Emails, password \in Passwords :
            (SignupCheck(p, email, password) /\ UsersByEmail(email) # {})
              => /\ res' = Respond("signup", 400, "Email already exists")
                 /\ users' = users
       /\ \A salt \in Salts :
            (SignupInsert(p, salt) /\ UsersByEmail(procs[p].email) = {})
              => /\ res'.op = "signup" /\ res'.status = 201
                 /\ users \subseteq users'
                 /\ Cardinality(users' \ users) = 1
                 /\ \A u \in users' \ users : u.email = procs[p].email]_vars

(* C1, both cases seen: a signup was refused with 400 for an email that    *)
(* another signup had added with 201.                                      *)
C1_Witness ==
  /\ res = Respond("signup", 400, "Email already exists")
  /\ Cardinality(users) = 2
  /\ Cardinality(registered) = 2

(* C9: no two user records share an email, however the lookups and inserts *)
(* of concurrent signups interleave.                                       *)
C9_EmailUnique ==
  \A u1 \in users, u2 \in users : u1.email = u2.email => u1 = u2

(* C9, the race: two signups for one email both passed the lookup, one     *)
(* inserted, the other's INSERT was refused.                               *)
C9_Witness ==
  /\ res = InternalError("signup")
  /\ Cardinality(users) = 1
  /\ \A p \in Procs : procs[p].pc = "idle"

(* C3: a login for an email with no user record answers 400 "Invalid       *)
(* email", one whose password does not verify 400 "Invalid password", and  *)
(* neither signs a token; a login answers 200 only for a registered email  *)
(* and password, and the access token and the cookie it signs carry that   *)
(* email.                                                                  *)
C3_LoginOutcome ==
  [][\A email \in Emails, password \in Passwords :
       Login(email, password)
         => /\ UsersByEmail(email) = {}
                 => res' = Respond("login", 400, "Invalid email") /\ issued' = issued
            /\ (\E u \in UsersByEmail(email) : ~BcryptCompare(password, u.password))
                 => res' = Respond("login", 400, "Invalid password") /\ issued' = issued
            /\ res'.status # 200 => issued' = issued
            /\ res'.status = 200
                 => /\ <<email, password>> \in registered
                    /\ \E a \in issued', c \in issued' :
                         /\ a.by = "login" /\ c.by = "login-cookie"
                         /\ a.email = email /\ c.email = email
                         /\ a.iat = now /\ c.iat = now
                         /\ issued' \ issued \subseteq {a, c}]_vars

(* C3, both cases seen: tokens were signed for one user only, and the last *)
(* login, for a registered email, was refused for its password.            *)
C3_Witness ==
  /\ res = Respond("login", 400, "Invalid password")
  /\ Cardinality(users) = 2
  /\ issued # {}
  /\ \A t \in issued : t.email = "a@x.com"

(* C4: an access token signed at time t for an email, by login or by       *)
(* refresh, passes the gate with that email attached at every time before  *)
(* t + 60 s and is refused with 403 at every time after it.                *)
C4_AccessTokenLifetime ==
  \A token \in issued :
    token.by \in {"login", "refresh"}
      => LET gate == AuthenticateToken(token)
         IN /\ now < token.iat + AccessTTL => gate.next /\ gate.user.email = token.email
            /\ now > token.iat + AccessTTL => ~gate.next /\ gate.status = 403

(* C4, both sides seen: of two access tokens for one email, the one login  *)
(* signed is past its 60 s and the one refresh signed is in its last       *)
(* second, and a request on a protected route was just refused.            *)
C4_Witness ==
  /\ \E t1 \in issued, t2 \in issued :
       /\ t1.by = "login" /\ now > t1.iat + AccessTTL
       /\ t2.by = "refresh" /\ now = t2.iat + AccessTTL - 1
       /\ t1.email = t2.email
  /\ res.op = "post_book" /\ res.status = 403

(* C5: refresh-token answers by the cookie alone: 401 and no token without *)
(* a cookie; 403 and no token for a cookie whose payload was altered, that *)
(* another key signed, or that login signed 7 days ago or more; 200 and a  *)
(* new access token with the cookie's email for a cookie login signed less *)
(* than 7 days ago.                                                        *)
C5_RefreshOutcome ==
  [][\A token \in Presentable :
       RefreshToken(token)
         => /\ token = NoToken
                 => res' = Respond("refresh", 401, "No refresh token") /\ issued' = issued
            /\ (token.by = "client"
                  \/ (token.by = "login-cookie" /\ now >= token.iat + RefreshTTL))
                 => res' = Respond("refresh", 403, "Invalid refresh token") /\ issued' = issued
            /\ (token.by = "login-cookie" /\ now < token.iat + RefreshTTL)
                 => /\ res' = Respond("refresh", 200, "")
                    /\ \E a \in issued' :
                         /\ a.by = "refresh" /\ a.email = token.email
                         /\ a.iat = now /\ a.exp = now + AccessTTL
                         /\ issued' \ issued \subseteq {a}]_vars

(* C5, at the boundary: the cookie login signed at 0 got a new access      *)
(* token in the last second of its 7 days, and is refused now that they    *)
(* are over.                                                               *)
C5_Witness ==
  /\ res = Respond("refresh", 403, "Invalid refresh token")
  /\ now = RefreshTTL
  /\ \A c \in issued : c.by = "login-cookie" => c.iat = 0
  /\ \E a \in issued : a.by = "refresh" /\ a.iat = RefreshTTL - 1

(* C2: after a signup for (email, password) got 201, a login with that     *)
(* email and password answers 200 with an access token and the             *)
(* refreshToken cookie in every later state, whatever signups, logins,     *)
(* refreshes, book and review requests came between.                       *)
C2_LoginAfterSignup ==
  \A pair \in registered :
    LET r == LoginResponse(pair[1], pair[2])
    IN /\ r.status = 200
       /\ r.accessToken # NoToken /\ r.accessToken.email = pair[1]
       /\ r.cookie # NoToken /\ r.cookie.email = pair[1]

(* C2, much later: both users signed up, a review was written and changed, *)
(* seven days passed, and a login has just answered 200.                   *)
C2_Witness ==
  /\ Cardinality(registered) = 2
  /\ \E r \in reviews : r.rating = 1
  /\ now = RefreshTTL
  /\ res = Respond("login", 200, "")

(* The first step of a request on a protected route of Spec *)
ProtectedStep(token) ==
  \/ \E title \in Titles : PostBook(token, title, "Herbert", Undefined, Undefined)
  \/ \E bookId \in 1..(MaxBooks + 1) : ReviewBookCheck(1, token, bookId, <<5>>, Undefined)
  \/ \E reviewId \in 1..(MaxSeqReviewId + 1) : PutSelect(1, token, reviewId, <<1>>, Undefined)
  \/ \E reviewId \in 1..(MaxSeqReviewId + 1) : DeleteSelect(1, token, reviewId)

C10_RefreshTokenStateless ==
  [][/\ \A token \in issued' :
          (token.by = "login-cookie" /\ now' < token.iat + RefreshTTL)
            => RefreshResponse(token)'.status = 200
     /\ (\E token \in Bearers : RefreshToken(token)) => UNCHANGED db
     /\ \A token \in Bearers :
          (ProtectedStep(token) /\ ~AuthenticateToken(token).next) => UNCHANGED db]_vars

(* C10, the last second: the cookie signed at 0 got 200 at 7 days less one *)
(* second, after a second signup and with a review stored.                 *)
C10_Witness ==
  /\ res = Respond("refresh", 200, "")
  /\ now = RefreshTTL - 1
  /\ \E c \in issued : c.by = "login-cookie"
  /\ \A c \in issued : c.by = "login-cookie" => c.iat = 0
  /\ Cardinality(users) = 2
  /\ reviews # {}

(* The requester owns a review: it wrote it, or the review's user_id is    *)
(* the id of the requester's user record.                                  *)
Owns(user, r) ==
  \/ r.author = user.email
  \/ \E u \in UsersByEmail(user.email) : r.user_id = Some(u.id)

(* C7: the UPDATE of PUT /books/reviews/:id and the DELETE of              *)
(* DELETE /books/reviews/:id change or remove a review only when the       *)
(* requester owns it.                                                      *)
C7_OnlyOwnerChanges ==
  [][\A p \in Procs :
       (PutUpdate(p) \/ DeleteDelete(p))
         => \A r \in reviews : r \notin reviews' => Owns(procs[p].user, r)]_vars

(* C8: the reviews table holds at most one review per book and user, the   *)
(* user being the requester the review was written for.                    *)
C8_OneReviewPerBookAndUser ==
  \A r1 \in reviews, r2 \in reviews :
    (r1.book_id = r2.book_id /\ r1.author = r2.author) => r1 = r2

(* C11: the INSERT of POST /books/:id/reviews stores one review, with      *)
(* book_id the book of the path and user_id the id of the user record      *)
(* whose email the gate attached to the request; a request for a book that *)
(* does not exist is answered 404 and goes no further.                     *)
C11_ReviewStoredForRequester ==
  [][\A p \in Procs :
       /\ ReviewInsert(p)
            => /\ Cardinality(reviews' \ reviews) = 1
               /\ \A r \in reviews' \ reviews :
                    /\ r.book_id = procs[p].id
                    /\ \E b \in books : b.id = r.book_id
                    /\ \E u \in UsersByEmail(procs[p].user.email) : r.user_id = Some(u.id)
       /\ \A token \in issued, bookId \in 1..(MaxBooks + 1), rating \in Ratings :
            (/\ ReviewBookCheck(p, token, bookId, rating, "good")
             /\ AuthenticateToken(token).next
             /\ ~RatingInvalid(rating)
             /\ \A b \in books : b.id # bookId)
              => /\ res' = Respond("post_review", 404, "Book not found")
                 /\ UNCHANGED <<reviews, procs>>]_vars

(* C12: every stored review has a rating in 1..5; POST /books/:id/reviews  *)
(* with a missing or out-of-range rating, and PUT /books/reviews/:id with  *)
(* an out-of-range rating, are answered 400 and leave reviews and the      *)
(* requests in flight as they are.                                         *)
C12_RatingInRange ==
  [][/\ \A r \in reviews' : r.rating \in 1..5
     /\ \A p \in Procs, token \in issued, rating \in Ratings :
          AuthenticateToken(token).next
            => /\ \A bookId \in 1..(MaxBooks + 1) :
                    (/\ ReviewBookCheck(p, token, bookId, rating, "good")
                     /\ (rating = None \/ rating[1] \notin 1..5))
                      => /\ res' = Respond("post_review", 400, "Rating must be between 1 and 5")
                         /\ UNCHANGED <<reviews, procs>>
               /\ \A reviewId \in 1..MaxReviewId, comment \in Comments :
                    (/\ PutSelect(p, token, reviewId, rating, comment)
                     /\ rating # None /\ rating[1] \notin 1..5)
                      => /\ res' = Respond("put_review", 400, "Rating must be between 1 and 5")
                         /\ UNCHANGED <<reviews, procs>>]_vars

(* C13: the UPDATE of PUT /books/reviews/:id changes only what the body    *)
(* supplied: with rating left out the review's rating stays as it is when  *)
(* the UPDATE runs, with comment left out its comment does, whatever ran   *)
(* since this request read the row; book_id, user_id and every other       *)
(* review stay as they are; a PUT for a review id that does not exist is   *)
(* answered 404 and changes nothing.                                       *)
C13_PutChangesOnlySupplied ==
  [][\A p \in Procs :
       /\ PutUpdate(p)
            => \A r \in reviews :
                 IF r.id = procs[p].id
                 THEN \E w \in reviews' :
                        /\ w.id = r.id /\ w.book_id = r.book_id /\ w.user_id = r.user_id
                        /\ procs[p].rating = None => w.rating = r.rating
                        /\ procs[p].comment = Undefined => w.comment = r.comment
                 ELSE r \in reviews'
       /\ \A token \in issued, reviewId \in 1..MaxReviewId, rating \in Ratings,
             comment \in Comments :
            (/\ PutSelect(p, token, reviewId, rating, comment)
             /\ AuthenticateToken(token).next
             /\ ~(rating # None /\ rating[1] \notin 1..5)
             /\ ReviewsById(reviewId) = {})
              => /\ res'.op = "put_review" /\ res'.status = 404
                 /\ UNCHANGED <<reviews, procs>>]_vars

(* C14: refresh-token signs access tokens only, and a session is bounded:  *)
(* every token refresh-token has signed lives AccessTTL, was signed less   *)
(* than 7 days after a login for its email signed the refresh cookie, and  *)
(* is expired 7 days and 60 s after that login.                            *)
C14_SessionBounded ==
  \A a \in issued :
    a.by = "refresh"
      => /\ a.exp = a.iat + AccessTTL
         /\ \E c \in issued :
              /\ c.by = "login-cookie" /\ c.email = a.email
              /\ a.iat < c.iat + RefreshTTL
              /\ a.exp <= c.iat + RefreshTTL + AccessTTL

====
